---- MODULE Spec2Model ----
(***************************************************************************)
(* A model of gazebo_satellite's TileLoader (src/src/tileloader.cpp,       *)
(* src/include/gazebo_satellite/tileloader.h): the constructor, start(),   *)
(* abort(), and the file system and HTTP client they talk to.              *)
(*                                                                         *)
(* start() is a blocking loop; it is modelled one file-system or network   *)
(* interaction at a time (start, startTile, startResponse, startReturn),   *)
(* so that sessions of other processes sharing the cache directory can     *)
(* run between the cache check, the GET and the write of one tile.         *)
(***************************************************************************)
EXTENDS Integers, Sequences, FiniteSets, TLC

\* ------------------------------------------------------------------------
\* 32-bit arithmetic.  The fields blocks_, center_tile_x_, center_tile_y_
\* and the locals of start() are `int`; the constructor takes `unsigned int`.

\* INT_MAX of the 32-bit `int` the fields are declared with.
IntMax == 2147483647

IntMin == -IntMax - 1

\* An unsigned int u is kept as [top, low] with u = top * 2^31 + low, so that
\* values above INT_MAX can be written down.
UInt(top, low) == [top |-> top, low |-> low]

UIntMax == UInt(1, IntMax)

\* unsigned -> int conversion of the member initialiser blocks_(blocks):
\* the value modulo 2^32.
ToInt(u) == IF u.top = 0 THEN u.low ELSE u.low + IntMin

\* Does a + b leave the range of int (signed overflow, undefined behaviour)?
AddOverflows(a, b) ==
  \/ b > 0 /\ a > IntMax - b
  \/ b < 0 /\ a < IntMin - b

\* Does a - b leave the range of int?
SubOverflows(a, b) ==
  \/ b < 0 /\ a > IntMax + b
  \/ b > 0 /\ a < IntMin + b

\* a + b as two's complement hardware computes it.
WrapAdd(a, b) ==
  IF ~AddOverflows(a, b) THEN a + b
  ELSE IF b > 0 THEN (a + IntMin) + (b + IntMin)
  ELSE ((a + IntMax) + 1) + ((b + IntMax) + 1)

\* a - b as two's complement hardware computes it.
WrapSub(a, b) ==
  IF ~SubOverflows(a, b) THEN a - b
  ELSE IF b < 0 THEN (a + IntMin) - ((b + IntMax) + 1)
  ELSE ((a + IntMax) + 1) - (b + IntMin)

\* What a build makes of a signed overflow: two's complement wrap-around
\* (the default code generation) or a trap (-ftrapv, -fsanitize).
OverflowOutcomes == {"wrap", "trap"}

Max(a, b) == IF a >= b THEN a ELSE b

Min(a, b) == IF a <= b THEN a ELSE b

\* 2^k for 0 <= k <= 30.
RECURSIVE Pow2(_)
Pow2(k) == IF k = 0 THEN 1 ELSE 2 * Pow2(k - 1)

\* The int expression (1 << zoom) for zoom in 0..31: 2^31 does not fit and
\* becomes INT_MIN.
ShiftLeftOne(zoom) == IF zoom = 31 THEN IntMin ELSE Pow2(zoom)

\* ------------------------------------------------------------------------
\* Inputs.

\* Tile services (URL templates) sessions are configured with.
Services == {"http://t/{z}/{x}/{y}.png"}

\* Latitudes, in units of 1/10000 degree: both ends of the accepted range,
\* and one value outside it.
LatValues == {850511, -850511, 900000}

\* Longitudes, in degrees: both ends of the accepted range, its middle, and
\* one value outside it.
LonValues == {-180, 0, 180, 200}

\* Zoom levels: two valid ones and the first invalid one.
ZoomValues == {0, 1, 32}

\* Block radii: none, one ring, INT_MAX and UINT_MAX.
BlocksValues == {UInt(0, 0), UInt(0, 1), UInt(0, IntMax), UIntMax}

\* HTTP outcomes of cpr::Get: success, not found, and a transport failure
\* (status_code 0).
StatusCodes == {200, 404, 0}

\* Outcomes of writing the cache file through std::fstream, which reports
\* nothing: the body is written; the open fails and nothing is created; the
\* file is created or truncated and the write comes up short.
WriteOutcomes == {"ok", "openfail", "short"}

\* The sessions (TileLoader objects, possibly of different processes).
Sessions == {1, 2}

\* ------------------------------------------------------------------------
\* Pure functions of the class.

\* std::hash<std::string> of the service, naming the cache directory.
hash_fn(service) == <<"hash", service>>

\* cachedNameForTile: "x<x>_y<y>_z<z>.jpg", one name per (x, y, z).
cachedNameForTile(x, y, z) == <<"x", x, "_y", y, "_z", z, ".jpg">>

\* cachedPathForTile: cache_path_ / cachedNameForTile(x, y, z).
cachedPathForTile(cache_path, x, y, z) ==
  [dir |-> cache_path, name |-> cachedNameForTile(x, y, z)]

\* uriForTile: the request for tile (x, y) of the session's service at its
\* zoom.
uriForTile(object_uri, zoom, x, y) ==
  [service |-> object_uri, x |-> x, y |-> y, z |-> zoom]

\* ------------------------------------------------------------------------
\* Strings, as sequences of characters, for uriForTile.

\* The decimal digits.
Digits == <<"0", "1", "2", "3", "4", "5", "6", "7", "8", "9">>

\* std::to_string(n) for n >= 0.
RECURSIVE to_string(_)
to_string(n) ==
  IF n < 10 THEN <<Digits[n + 1]>>
  ELSE to_string(n \div 10) \o <<Digits[(n % 10) + 1]>>

\* The terminator std::string keeps after its last character.
Nul == "NUL"

\* The upper-case form of a placeholder letter (boost::regex::icase).
UpperCase(c) == CASE c = "x" -> "X" [] c = "y" -> "Y" [] c = "z" -> "Z"

\* Does the regular expression \{c\}, case-insensitive, match the three
\* characters of buffer mem at offset i (counted from 0)?
MatchesAt(mem, i, c) ==
  /\ mem[i + 1] = "{"
  /\ mem[i + 2] \in {c, UpperCase(c)}
  /\ mem[i + 3] = "}"

\* What a build makes of the iterators start and end after str.replace has
\* invalidated them: "plain" reads whatever the old buffer holds, "sanitized"
\* stops at a read of a freed buffer, "checked" (checked iterators) stops at
\* any use of an invalidated iterator.
IteratorOutcomes == {"plain", "sanitized", "checked"}

\* A std::string: its characters and the capacity of its buffer.
String(chars, cap) == [chars |-> chars, cap |-> cap]

\* The process was stopped.
Fault == [chars |-> <<"fault">>, cap |-> 0]

\* The buffer after str.replace without reallocation: the new characters,
\* the terminator, and behind it what was there before.
BufferAfter(mem, new) ==
  [i \in 1 .. Max(Len(mem), Len(new) + 1) |->
     IF i <= Len(new) THEN new[i]
     ELSE IF i = Len(new) + 1 THEN Nul
     ELSE mem[i]]

\* The loop of replaceRegex, lines 30-37.  str: the string; mem: the buffer
\* the iterators point into; live: is it still the buffer of str; start,
\* end: the iterators, as offsets into mem; c: the placeholder letter.
RECURSIVE replaceLoop(_, _, _, _, _, _, _, _)
replaceLoop(str, mem, live, start, end, c, replace, ub) ==
  LET found == { i \in start .. (end - 3) : MatchesAt(mem, i, c) }
  IN  IF found = {} THEN str
      ELSE
        LET m == CHOOSE i \in found : \A j \in found : i <= j
            \* what.position(): counted from start, not from str.begin()
            pos == m - start
            size == Len(str.chars)
            len == Min(3, size - pos)
            new == SubSeq(str.chars, 1, pos) \o replace
                     \o SubSeq(str.chars, pos + len + 1, size)
            realloc == Len(new) > str.cap
            str2 == String(new, IF realloc THEN Max(Len(new), 2 * str.cap)
                                ELSE str.cap)
            live2 == live /\ ~realloc
            mem2 == IF live2 THEN BufferAfter(mem, new) ELSE mem
        IN  IF pos > size THEN Fault  \* std::out_of_range, not caught
            ELSE IF ub = "checked" \/ (ub = "sanitized" /\ ~live2) THEN Fault
            ELSE replaceLoop(str2, mem2, live2, m + 3, end, c, replace, ub)

\* replaceRegex(ex, str, replace), lines 26-39, for ex = \{c\} with icase:
\* the string afterwards.
replaceRegex(c, str, replace, ub) ==
  IF str = Fault THEN Fault
  ELSE replaceLoop(str, str.chars \o <<Nul>>, TRUE, 0, Len(str.chars),
                   c, replace, ub)

\* uriForTile(x, y), lines 175-186, on the characters of object_uri_: a
\* copy with capacity cap, then {x}, {y} and {z} replaced in this order.
uriForTileChars(object_uri, cap, zoom, x, y, ub) ==
  replaceRegex("z",
    replaceRegex("y",
      replaceRegex("x", String(object_uri, cap), to_string(x), ub),
      to_string(y), ub),
    to_string(zoom), ub).chars

\* MapTile(x, y, z, path).
MapTile(x, y, z, path) == [x |-> x, y |-> y, z |-> z, path |-> path]

\* Argument checks that reject both ends of the latitude and longitude
\* ranges.
latLonToTileCoordsThrows_EndsExcluded(lat, lon, zoom) ==
  IF zoom > 31 THEN "zoom"
  ELSE IF lat <= -850511 \/ lat >= 850511 THEN "latitude"
  ELSE IF lon <= -180 \/ lon >= 180 THEN "longitude"
  ELSE "none"

\* The argument checks of latLonToTileCoords: the exception it throws, or
\* "none".
latLonToTileCoordsThrows(lat, lon, zoom) ==
  IF zoom > 31 THEN "zoom"
  ELSE IF lat < -850511 \/ lat > 850511 THEN "latitude"
  ELSE IF lon < -180 \/ lon > 180 THEN "longitude"
  ELSE "none"

\* floor(2^30 * (1 - log(tan(lat_rad) + 1 / cos(lat_rad)) / M_PI)), the
\* double of line 160 evaluated at the accepted latitudes of LatValues and
\* CallLats.
MercatorT30(lat) ==
  CASE lat = 850511 -> 1990
    [] lat = 660000 -> 544475293
    [] lat = 0 -> 1073741824
    [] lat = -660000 -> 1603008354
    [] lat = -850511 -> 2147481657

\* floor(x) of latLonToTileCoords for a whole number of degrees:
\* floor(2^zoom * (lon + 180) / 360), exact in double arithmetic.
TileX(lon, zoom) ==
  LET k == lon + 180
      half == IF zoom = 31 THEN Pow2(30) ELSE Pow2(zoom)
      q == half \div 360
      r == half % 360
  IN  IF zoom = 31
        THEN 2 * (q * k) + ((2 * r * k) \div 360)
        ELSE q * k + ((r * k) \div 360)

\* floor(y) of latLonToTileCoords: floor(2^(zoom-1) * t).
TileY(lat, zoom) ==
  IF zoom = 0 THEN 0 ELSE MercatorT30(lat) \div Pow2(31 - zoom)

\* Is floor(x) = 2^31, which no int holds?  Its conversion in
\* center_tile_x_ = std::floor(x) is undefined behaviour.
CenterXOverflows(lon, zoom) == zoom = 31 /\ lon = 180

\* What a build makes of the out-of-range double -> int conversion: INT_MIN
\* (x86 cvttsd2si) or INT_MAX (a saturating conversion).
ConversionOutcomes == {IntMin, IntMax}

\* floor(x) of latLonToTileCoords as an unbounded number [top, low]: 2^31
\* at zoom 31 and longitude 180.
FloorX(lon, zoom) ==
  IF CenterXOverflows(lon, zoom) THEN UInt(1, 0) ELSE UInt(0, TileX(lon, zoom))

\* latLonToTileCoords(lat, lon, zoom, x, y), lines 144-163: the exception
\* thrown, or the outputs x and y, kept by their floors.
latLonToTileCoords(lat, lon, zoom) ==
  LET thrown == latLonToTileCoordsThrows(lat, lon, zoom)
  IN  IF thrown # "none"
        THEN [exception |-> "std::invalid_argument", what |-> thrown]
        ELSE [exception |-> "none",
              floor_x |-> FloorX(lon, zoom),
              floor_y |-> UInt(0, TileY(lat, zoom))]

\* The literal 156543.034 of line 170, metres per pixel at zoom 0 on the
\* equator, in units of 1/1000.
EquatorResolution == 156543034

\* zoomToResolution(lat, zoom), lines 167-171, for zoom in 0..31: the double
\* 156543.034 * cos(lat_rad) / (1 << zoom), kept as scale * cos(cos_of
\* degrees) / divisor; the divisor is an int.
zoomToResolution(lat, zoom) ==
  [scale |-> EquatorResolution, cos_of |-> lat,
   divisor |-> ShiftLeftOne(zoom)]

\* maxTiles(): (1 << zoom_) - 1, as two's complement hardware computes it.
maxTiles(zoom) == WrapSub(ShiftLeftOne(zoom), 1)

\* ------------------------------------------------------------------------
\* State.

VARIABLES
  dirs,    \* the cache directories that exist
  files,   \* the cache files that exist: path -> content
  pc,      \* per session: where its thread is
  obj,     \* per session: the fields of the TileLoader object
  tiles,   \* per session: tiles_
  loc,     \* per session: the locals of start()
  io,      \* per session: what the current start() asked of the file
           \* system, the HTTP client and the error log, in order
  listed,  \* the cache paths the client has read from tiles() after a start()
  calc     \* a call of one of the pure functions: its arguments and, once
           \* it has returned, its result

vars == <<dirs, files, pc, obj, tiles, loc, io, listed, calc>>

\* No pure function is being called.
NoCall == [fn |-> "none"]

\* Content of a cache file: a complete tile image, or the beginning of one.
Contents == {"image", "partial"}

\* The fields of a session that was not constructed.
NoObject ==
  [latitude_ |-> 0, longitude_ |-> 0, zoom_ |-> 0, blocks_ |-> 0,
   center_tile_x_ |-> 0, center_tile_y_ |-> 0,
   cache_path_ |-> <<>>, object_uri_ |-> ""]

NoLocals == [min_x |-> 0, min_y |-> 0, max_x |-> 0, max_y |-> 0,
             x |-> 0, y |-> 0]

\* The cache files a run may find on disk when it begins.
PrePopulated ==
  { cachedPathForTile(hash_fn(sv), 0, 0, 1) : sv \in Services }
    \cup { cachedPathForTile(hash_fn(sv), 1, 1, 1) : sv \in Services }

Init ==
  /\ \E present \in SUBSET PrePopulated :
       /\ files = [p \in present |-> "image"]
       /\ \E ds \in SUBSET { hash_fn(sv) : sv \in Services } :
            /\ { p.dir : p \in present } \subseteq ds
            /\ dirs = ds
  /\ pc = [s \in Sessions |-> "none"]
  /\ obj = [s \in Sessions |-> NoObject]
  /\ tiles = [s \in Sessions |-> <<>>]
  /\ loc = [s \in Sessions |-> NoLocals]
  /\ io = [s \in Sessions |-> <<>>]
  /\ listed = {}
  /\ calc = NoCall

\* ------------------------------------------------------------------------
\* The file system and the I/O log.

\* fs::exists(path).
exists(path) == path \in DOMAIN files

\* The files after `path` has got content c.
FilesWith(path, c) ==
  [p \in DOMAIN files \cup {path} |-> IF p = path THEN c ELSE files[p]]

\* A write that removes the file again when it came up short.
WriteFile_RemoveOnFailure(path, outcome) ==
  CASE outcome = "ok" -> FilesWith(path, "image")
    [] outcome = "short" -> [p \in DOMAIN files \ {path} |-> files[p]]
    [] outcome = "openfail" -> files

\* std::fstream imgout(path, out | binary); imgout.write(...); close():
\* the files afterwards, by the outcome of the open and the write.
WriteFile(path, outcome) ==
  CASE outcome = "ok" -> FilesWith(path, "image")
    [] outcome = "short" -> FilesWith(path, "partial")
    [] outcome = "openfail" -> files

\* One entry of the I/O log: op is "exists" (arg: the answer), "get" (a
\* request was sent), "response" (arg: the status code), "write" (arg: the
\* outcome), "gzerr" (arg: the status code reported) or "abort" (abort() was
\* called during the start(); arg: the number of tiles it cleared).
Event(op, x, y, arg) == [op |-> op, x |-> x, y |-> y, arg |-> arg]

\* ------------------------------------------------------------------------
\* The constructor, lines 43-73.  ndebug: is the build one with NDEBUG;
\* mkdir: does fs::create_directories succeed; conv: what the build makes
\* of an out-of-range conversion of floor(x).
TileLoader(s, service, latitude, longitude, zoom, blocks, ndebug, mkdir, conv) ==
  LET blocks_ == ToInt(blocks)
      cache_path_ == hash_fn(service)
      thrown == latLonToTileCoordsThrows(latitude, longitude, zoom)
  IN  /\ pc[s] = "none"
      /\ UNCHANGED <<files, tiles, loc, io, listed, calc>>
      /\ IF blocks_ < 0 /\ ~ndebug
           THEN \* assert(blocks_ >= 0) fails: the process is aborted
                /\ pc' = [pc EXCEPT ![s] = "aborted"]
                /\ UNCHANGED <<dirs, obj>>
           ELSE IF cache_path_ \notin dirs /\ ~mkdir
           THEN \* fs::create_directories throws
                /\ pc' = [pc EXCEPT ![s] = "thrown"]
                /\ UNCHANGED <<dirs, obj>>
           ELSE IF thrown # "none"
           THEN \* latLonToTileCoords throws std::invalid_argument, after
                \* the directory was created
                /\ dirs' = dirs \cup {cache_path_}
                /\ pc' = [pc EXCEPT ![s] = "thrown"]
                /\ UNCHANGED obj
           ELSE /\ dirs' = dirs \cup {cache_path_}
                /\ pc' = [pc EXCEPT ![s] = "idle"]
                /\ obj' = [obj EXCEPT ![s] =
                     [latitude_ |-> latitude, longitude_ |-> longitude,
                      zoom_ |-> zoom, blocks_ |-> blocks_,
                      center_tile_x_ |->
                        IF CenterXOverflows(longitude, zoom) THEN conv
                        ELSE TileX(longitude, zoom),
                      center_tile_y_ |-> TileY(latitude, zoom),
                      cache_path_ |-> cache_path_,
                      object_uri_ |-> service]]

\* abort(), lines 214-217.
abort(s) ==
  /\ pc[s] \in {"idle", "done"}
  /\ tiles' = [tiles EXCEPT ![s] = <<>>]
  /\ pc' = [pc EXCEPT ![s] = "idle"]
  /\ UNCHANGED <<dirs, files, obj, loc, io, listed, calc>>

\* A start() that does not call abort() and appends to the old list.
TilesAtStart_KeepOld(old) == old

\* The tile list start() begins with: it calls abort() first (line 89).
TilesAtStart(old) == <<>>

\* A lower bound that is not clamped at 0.
LowerBound_Unclamped(center, blocks_) == WrapSub(center, blocks_)

\* std::max(0, center - blocks_) of lines 94-95.
LowerBound(center, blocks_) == Max(0, WrapSub(center, blocks_))

\* std::min(maxTiles(), center + blocks_) of lines 96-97.
UpperBound(zoom, center, blocks_) ==
  Min(maxTiles(zoom), WrapAdd(center, blocks_))

\* Does one of the int expressions of lines 94-97 overflow for object o?
BoundsOverflow(o) ==
  \/ SubOverflows(o.center_tile_x_, o.blocks_)
  \/ SubOverflows(o.center_tile_y_, o.blocks_)
  \/ AddOverflows(o.center_tile_x_, o.blocks_)
  \/ AddOverflows(o.center_tile_y_, o.blocks_)
  \/ SubOverflows(ShiftLeftOne(o.zoom_), 1)

\* start() up to the loop, lines 86-100.  outcome: what the build makes of
\* a signed overflow, should one happen.
start(s, outcome) ==
  LET o == obj[s]
  IN  /\ pc[s] \in {"idle", "done"}
      /\ tiles' = [tiles EXCEPT ![s] = TilesAtStart(tiles[s])]
      /\ io' = [io EXCEPT ![s] = <<>>]
      /\ UNCHANGED <<dirs, files, obj, listed, calc>>
      /\ IF BoundsOverflow(o) /\ outcome = "trap"
           THEN /\ pc' = [pc EXCEPT ![s] = "aborted"]
                /\ UNCHANGED loc
           ELSE /\ pc' = [pc EXCEPT ![s] = "loop"]
                /\ loc' = [loc EXCEPT ![s] =
                     [min_x |-> LowerBound(o.center_tile_x_, o.blocks_),
                      min_y |-> LowerBound(o.center_tile_y_, o.blocks_),
                      max_x |-> UpperBound(o.zoom_, o.center_tile_x_, o.blocks_),
                      max_y |-> UpperBound(o.zoom_, o.center_tile_y_, o.blocks_),
                      x |-> LowerBound(o.center_tile_x_, o.blocks_),
                      y |-> LowerBound(o.center_tile_y_, o.blocks_)]]

\* Is the loop at a tile (both loop conditions hold)?
AtTile(l) == l.y <= l.max_y /\ l.x <= l.max_x

\* A loop with x outside and y inside.
Advance_ColumnMajor(l) ==
  IF l.y < l.max_y THEN [l EXCEPT !.y = l.y + 1]
  ELSE [l EXCEPT !.y = l.min_y, !.x = l.x + 1]

\* A loop that takes up the same tile again.
Advance_SameTile(l) == l

\* The locals after x++ and, at the end of a row, y++ (lines 100-101).
Advance(l) ==
  IF l.x < l.max_x THEN [l EXCEPT !.x = l.x + 1]
  ELSE [l EXCEPT !.x = l.min_x, !.y = l.y + 1]

\* The path of the tile the loop of session s is at (line 103).
full_path(s) ==
  cachedPathForTile(obj[s].cache_path_, loc[s].x, loc[s].y, obj[s].zoom_)

\* The MapTile pushed for the tile the loop of session s is at.
CurrentTile(s) == MapTile(loc[s].x, loc[s].y, obj[s].zoom_, full_path(s))

\* A loader that never looks into the cache and always downloads.
InCache_Never(path) == FALSE

\* The test of line 106: is the tile already in the cache?
InCache(path) == exists(path)

\* A loader that takes every answer of the server for an image.
IsSuccess_AnyResponse(status) == status # 0

\* The test of line 116: does the response carry an image?
IsSuccess(status) == status = 200

\* Lines 103-113 for one tile: a cached tile is pushed; for any other a
\* blocking GET is sent.
startTile(s) ==
  LET l == loc[s]
  IN  /\ pc[s] = "loop"
      /\ AtTile(l)
      /\ UNCHANGED <<dirs, files, obj, listed, calc>>
      /\ IF InCache(full_path(s))
           THEN /\ tiles' = [tiles EXCEPT ![s] = Append(@, CurrentTile(s))]
                /\ io' = [io EXCEPT ![s] =
                     Append(@, Event("exists", l.x, l.y, exists(full_path(s))))]
                /\ loc' = [loc EXCEPT ![s] = Advance(l)]
                /\ UNCHANGED pc
           ELSE /\ io' = [io EXCEPT ![s] =
                     @ \o <<Event("exists", l.x, l.y, exists(full_path(s))),
                            Event("get", l.x, l.y,
                                  uriForTile(obj[s].object_uri_,
                                             obj[s].zoom_, l.x, l.y))>>]
                /\ pc' = [pc EXCEPT ![s] = "get"]
                /\ UNCHANGED <<tiles, loc>>

\* A start() that gives up at the first failed fetch.
AfterResponse_StopOnFailure(status) == IF status = 200 THEN "loop" ELSE "done"

\* Where start() goes on after a response: to the next tile, whatever the
\* status (the else branch of line 125 only logs).
AfterResponse(status) == "loop"

\* Lines 116-127 for one tile: the response of the GET is processed.
startResponse(s, status, outcome) ==
  LET l == loc[s]
  IN  /\ pc[s] = "get"
      /\ UNCHANGED <<dirs, obj, listed, calc>>
      /\ pc' = [pc EXCEPT ![s] = AfterResponse(status)]
      /\ loc' = [loc EXCEPT ![s] = Advance(l)]
      /\ IF IsSuccess(status)
           THEN /\ files' = WriteFile(full_path(s), outcome)
                /\ tiles' = [tiles EXCEPT ![s] = Append(@, CurrentTile(s))]
                /\ io' = [io EXCEPT ![s] =
                     @ \o <<Event("response", l.x, l.y, status),
                            Event("write", l.x, l.y, outcome)>>]
           ELSE /\ io' = [io EXCEPT ![s] =
                     @ \o <<Event("response", l.x, l.y, status),
                            Event("gzerr", l.x, l.y, status)>>]
                /\ UNCHANGED <<files, tiles>>

\* The loop is over and start() returns (line 131).
startReturn(s) ==
  /\ pc[s] = "loop"
  /\ ~AtTile(loc[s])
  /\ pc' = [pc EXCEPT ![s] = "done"]
  /\ UNCHANGED <<dirs, files, obj, tiles, loc, io, listed, calc>>

\* ------------------------------------------------------------------------
\* Specifications.

Construct(s) ==
  \E service \in Services, latitude \in LatValues, longitude \in LonValues,
     zoom \in ZoomValues, blocks \in BlocksValues,
     ndebug \in BOOLEAN, mkdir \in BOOLEAN, conv \in ConversionOutcomes :
    TileLoader(s, service, latitude, longitude, zoom, blocks, ndebug, mkdir, conv)

Start(s) == \E outcome \in OverflowOutcomes : start(s, outcome)

Response(s) ==
  \E status \in StatusCodes, outcome \in WriteOutcomes :
    startResponse(s, status, outcome)

\* One session.
Next ==
  \/ Construct(1)
  \/ Start(1)
  \/ startTile(1)
  \/ Response(1)
  \/ startReturn(1)
  \/ abort(1)

Spec == Init /\ [][Next]_vars

\* The configurations of the sessions that share a cache: longitude and
\* block radius, at zoom 1 on the northern edge.  Their grids are the single
\* tile (1, 0), the column {(1, 0), (1, 1)} and the empty grid.
SharedConfigs == {<<0, UInt(0, 0)>>, <<180, UInt(0, 1)>>, <<180, UInt(0, 0)>>}

\* Sessions of one service, whose grids overlap.
ConstructShared(s) ==
  \E service \in Services, c \in SharedConfigs, mkdir \in BOOLEAN :
    TileLoader(s, service, 850511, c[1], 1, c[2], TRUE, mkdir, IntMin)

NextShared ==
  \E s \in Sessions :
    \/ ConstructShared(s)
    \/ Start(s)
    \/ startTile(s)
    \/ Response(s)
    \/ startReturn(s)
    \/ abort(s)

SpecShared == Init /\ [][NextShared]_vars

\* tiles(), tileloader.h line 104, read by the client after start() has
\* returned: the paths it holds are remembered in `listed`.
readTiles(s) ==
  LET paths == { tiles[s][i].path : i \in DOMAIN tiles[s] }
  IN  /\ pc[s] = "done"
      /\ ~(paths \subseteq listed)
      /\ listed' = listed \cup paths
      /\ UNCHANGED <<dirs, files, pc, obj, tiles, loc, io, calc>>

\* One session whose client reads tiles() after each start().
NextReuse ==
  \/ ConstructShared(1)
  \/ Start(1)
  \/ startTile(1)
  \/ Response(1)
  \/ startReturn(1)
  \/ abort(1)
  \/ readTiles(1)

SpecReuse == Init /\ [][NextReuse]_vars

\* How many times abort() is called during one start().
MaxAborts == 1

\* The entries of the I/O log of session s that record an abort() made while
\* its start() was running.
AbortsInFlight(s) == { i \in DOMAIN io[s] : io[s][i].op = "abort" }

\* abort(), lines 214-217, called from another thread while start() of the
\* same object is between two tiles of its loop: tiles_ is cleared, and
\* nothing tells the loop, which has no flag to test.
abortInFlight(s) ==
  /\ pc[s] = "loop"
  /\ Cardinality(AbortsInFlight(s)) < MaxAborts
  /\ tiles' = [tiles EXCEPT ![s] = <<>>]
  /\ io' = [io EXCEPT ![s] =
       Append(@, Event("abort", loc[s].x, loc[s].y, Len(tiles[s])))]
  /\ UNCHANGED <<dirs, files, pc, obj, loc, listed, calc>>

\* One session whose client calls abort() also while start() runs.
NextCancel ==
  \/ ConstructShared(1)
  \/ Start(1)
  \/ startTile(1)
  \/ Response(1)
  \/ startReturn(1)
  \/ abort(1)
  \/ abortInFlight(1)

SpecCancel == Init /\ [][NextCancel]_vars

\* ------------------------------------------------------------------------
\* Calls of the static and pure functions of the class, one call per run.

\* Latitudes of the calls, in units of 1/10000 degree: both ends of the
\* accepted range, the first values outside it, the poles, and three inside.
CallLats ==
  {-900000, -850512, -850511, -660000, 0, 660000, 850511, 850512, 900000}

\* Longitudes of the calls, in degrees.
CallLons == {-181, -180, -90, 0, 90, 179, 180, 181, 200}

\* Zoom levels of the calls: the ends of the accepted range, some inside
\* and two above it.
CallZooms == {0, 1, 2, 30, 31, 32, 33}

\* The calls of latLonToTileCoords.
LatLonCalls ==
  { [fn |-> "latLonToTileCoords", lat |-> lat, lon |-> lon, zoom |-> zoom,
     returned |-> FALSE, result |-> <<>>] :
      lat \in CallLats, lon \in CallLons, zoom \in CallZooms }

\* latLonToTileCoords is called and returns or throws.
callLatLonToTileCoords ==
  /\ calc.fn = "latLonToTileCoords"
  /\ ~calc.returned
  /\ calc' = [calc EXCEPT
       !.returned = TRUE,
       !.result = latLonToTileCoords(calc.lat, calc.lon, calc.zoom)]
  /\ UNCHANGED <<dirs, files, pc, obj, tiles, loc, io, listed>>

\* URL templates of the calls of uriForTile: each placeholder once, in
\* lower and in upper case; a placeholder twice and three times; a template
\* longer than a short-string buffer; one without a placeholder.
UriTemplates ==
  { <<"/", "{", "z", "}", "/", "{", "x", "}", "/", "{", "y", "}">>,
    <<"{", "Z", "}", "{", "Y", "}", "{", "X", "}">>,
    <<"{", "x", "}", "{", "x", "}">>,
    <<"a", "{", "x", "}", "b", "{", "x", "}">>,
    <<"{", "x", "}", "-", "{", "x", "}", "-", "{", "x", "}">>,
    <<"{", "y", "}", "/", "{", "y", "}">>,
    <<"t", "/", "{", "z", "}", "/", "{", "x", "}", "/", "{", "y", "}", ".", "p", "n", "g", "?", "x", "=", "{", "x", "}">>,
    <<"{", "x", "/", "y", "}">> }

\* Tile indices and zooms of the calls of uriForTile: decimal forms
\* shorter than, as long as and longer than the three characters of a
\* placeholder.
UriXs == {3, 123, 12345}

UriYs == {5, 678}

UriZooms == {2, 17}

\* Capacity the copy of object_uri_ has beyond its length: none (an exact
\* allocation) or some (a short-string buffer).
CapacitySlack == {0, 8}

\* The calls of uriForTile.
UriCalls ==
  { [fn |-> "uriForTile", object_uri |-> t, cap |-> Len(t) + k,
     zoom |-> z, x |-> x, y |-> y, ub |-> ub,
     returned |-> FALSE, result |-> <<>>] :
      t \in UriTemplates, k \in CapacitySlack, z \in UriZooms,
      x \in UriXs, y \in UriYs, ub \in IteratorOutcomes }

\* uriForTile is called and returns, or the process is stopped.
callUriForTile ==
  /\ calc.fn = "uriForTile"
  /\ ~calc.returned
  /\ calc' = [calc EXCEPT
       !.returned = TRUE,
       !.result = uriForTileChars(calc.object_uri, calc.cap, calc.zoom,
                                  calc.x, calc.y, calc.ub)]
  /\ UNCHANGED <<dirs, files, pc, obj, tiles, loc, io, listed>>

\* The calls of zoomToResolution, at the zoom levels the constructor
\* accepts.
ResolutionCalls ==
  { [fn |-> "zoomToResolution", lat |-> lat, zoom |-> zoom,
     returned |-> FALSE, result |-> <<>>] :
      lat \in CallLats, zoom \in { z \in CallZooms : z <= 31 } }

\* zoomToResolution is called and returns.
callZoomToResolution ==
  /\ calc.fn = "zoomToResolution"
  /\ ~calc.returned
  /\ calc' = [calc EXCEPT
       !.returned = TRUE,
       !.result = zoomToResolution(calc.lat, calc.zoom)]
  /\ UNCHANGED <<dirs, files, pc, obj, tiles, loc, io, listed>>

\* The calls a run may make.
Calls == LatLonCalls \cup UriCalls \cup ResolutionCalls

\* A run that makes one call of a pure function on an empty cache.
InitCalc ==
  /\ dirs = {}
  /\ files = <<>>
  /\ pc = [s \in Sessions |-> "none"]
  /\ obj = [s \in Sessions |-> NoObject]
  /\ tiles = [s \in Sessions |-> <<>>]
  /\ loc = [s \in Sessions |-> NoLocals]
  /\ io = [s \in Sessions |-> <<>>]
  /\ listed = {}
  /\ calc \in Calls

NextCalc ==
  \/ callLatLonToTileCoords
  \/ callUriForTile
  \/ callZoomToResolution

SpecCalc == InitCalc /\ [][NextCalc]_vars

\* ------------------------------------------------------------------------
\* Reading the I/O log of a start() call.

\* The events of session s, as a set.
Events(s) == { io[s][i] : i \in DOMAIN io[s] }

\* The indices start() checked the cache for.
Probed(s) == { <<e.x, e.y>> : e \in { f \in Events(s) : f.op = "exists" } }

\* The indices found in the cache.
Hits(s) ==
  { <<e.x, e.y>> : e \in { f \in Events(s) : f.op = "exists" /\ f.arg } }

\* The indices a GET was sent for.
Requested(s) == { <<e.x, e.y>> : e \in { f \in Events(s) : f.op = "get" } }

\* The indices whose GET returned 200.
Fetched(s) ==
  { <<e.x, e.y>> :
      e \in { f \in Events(s) : f.op = "response" /\ f.arg = 200 } }

\* The indices whose GET returned anything else.
Failed(s) ==
  { <<e.x, e.y>> :
      e \in { f \in Events(s) : f.op = "response" /\ f.arg # 200 } }

\* The indices whose cache file start() opened for writing.
Written(s) == { <<e.x, e.y>> : e \in { f \in Events(s) : f.op = "write" } }

\* The indices in tiles().
TileIndices(s) == { <<tiles[s][i].x, tiles[s][i].y>> : i \in DOMAIN tiles[s] }

\* The MapTile of index ix for session s.
TileOf(s, ix) ==
  MapTile(ix[1], ix[2], obj[s].zoom_,
          cachedPathForTile(obj[s].cache_path_, ix[1], ix[2], obj[s].zoom_))

\* Session s is in a start() call or has returned from one and was not
\* aborted since: io[s] and tiles[s] are those of that call.
InStart(s) == pc[s] \in {"loop", "get", "done"}

\* ------------------------------------------------------------------------
\* Claims.

\* C1: an index whose cache file exists when start() reaches it gets no
\* network request in that call and has its MapTile in tiles().
C1_CacheHitNoRequest ==
  \A s \in Sessions :
    InStart(s) =>
      \A ix \in Hits(s) :
        /\ ix \notin Requested(s)
        /\ \E i \in DOMAIN tiles[s] : tiles[s][i] = TileOf(s, ix)

\* C1 witness: start() has returned after a cache hit on one index and a
\* fetch of another.
C1_Witness ==
  \E s \in Sessions :
    /\ pc[s] = "done"
    /\ Hits(s) # {}
    /\ Requested(s) # {}
    /\ Hits(s) \subseteq TileIndices(s)

\* The block radius the constructor was given, as the claims read it: the
\* unsigned value R.  RadiusHuge: R >= 2^31 (blocks_ is its value - 2^32).
RadiusHuge(s) == obj[s].blocks_ < 0

\* max(0, c - R) in the integers, for a center c of session s.
ClampedLo(s, c) ==
  IF RadiusHuge(s) \/ c < 0 THEN 0
  ELSE IF obj[s].blocks_ >= c THEN 0 ELSE c - obj[s].blocks_

\* min(2^z - 1, c + R) in the integers (z <= 30, c >= 0).
ClampedHi(s, c) ==
  LET m == Pow2(obj[s].zoom_) - 1
  IN  IF RadiusHuge(s) THEN m
      ELSE IF c >= m THEN m
      ELSE IF obj[s].blocks_ >= m - c THEN m ELSE c + obj[s].blocks_

\* The clamped grid of session s: {(x, y) : max(0, cx-R) <= x <=
\* min(2^z-1, cx+R), max(0, cy-R) <= y <= min(2^z-1, cy+R)}.
ClampedGrid(s) ==
  (ClampedLo(s, obj[s].center_tile_x_) .. ClampedHi(s, obj[s].center_tile_x_))
    \X
  (ClampedLo(s, obj[s].center_tile_y_) .. ClampedHi(s, obj[s].center_tile_y_))

\* The clamped grid in row-major order: y outside, x inside, both ascending.
RowMajor(s) ==
  LET x0 == ClampedLo(s, obj[s].center_tile_x_)
      y0 == ClampedLo(s, obj[s].center_tile_y_)
      w == Max(0, ClampedHi(s, obj[s].center_tile_x_) - x0 + 1)
      h == Max(0, ClampedHi(s, obj[s].center_tile_y_) - y0 + 1)
  IN  [i \in 1 .. (w * h) |-> <<x0 + ((i - 1) % w), y0 + ((i - 1) \div w)>>]

\* C2: the indices one start() call attempts are exactly the clamped grid,
\* and the missing ones among them are fetched.
C2_AttemptsClampedGrid ==
  \A s \in Sessions :
    pc[s] = "done" =>
      /\ Probed(s) = ClampedGrid(s)
      /\ Requested(s) = Probed(s) \ Hits(s)

\* The part of C2 the code keeps: when blocks_ >= 0 and lines 94-97 do not
\* overflow, the attempted indices are the clamped grid.
C2_HoldsWithoutOverflow ==
  \A s \in Sessions :
    (pc[s] = "done" /\ ~RadiusHuge(s) /\ ~BoundsOverflow(obj[s])) =>
      /\ Probed(s) = ClampedGrid(s)
      /\ Requested(s) = Probed(s) \ Hits(s)

\* C3: when start() returns, tiles() is the row-major enumeration of the
\* clamped grid restricted to the indices that were a cache hit or were
\* fetched with status 200.
C3_TilesAreSuccessesInRowMajorOrder ==
  \A s \in Sessions :
    pc[s] = "done" =>
      LET ok == SelectSeq(RowMajor(s),
                          LAMBDA ix : ix \in Hits(s) \cup Fetched(s))
      IN  tiles[s] = [i \in DOMAIN ok |-> TileOf(s, ok[i])]

\* C3 witness: start() has returned from a grid of two rows and two columns
\* in which one fetch failed and a later index succeeded.
C3_Witness ==
  \E s \in Sessions :
    /\ pc[s] = "done"
    /\ Cardinality(Probed(s)) = 4
    /\ <<0, 0>> \in Failed(s)
    /\ <<1, 0>> \in Fetched(s)
    /\ <<0, 1>> \in Hits(s) \cup Fetched(s)
    /\ Len(tiles[s]) >= 2

\* C4: an index that was not cached and whose fetch returned a status other
\* than 200 is absent from tiles(), and start() neither wrote nor created
\* a cache file for it.
C4_FailedFetchLeavesNothing ==
  \A s \in Sessions :
    InStart(s) =>
      \A ix \in Failed(s) :
        /\ ix \notin TileIndices(s)
        /\ ix \notin Written(s)
        /\ ~exists(TileOf(s, ix).path)

\* C4 witness: start() has returned after a 404 and after a transport
\* failure.
C4_Witness ==
  \E s \in Sessions :
    /\ pc[s] = "done"
    /\ \E e \in Events(s) : e.op = "response" /\ e.arg = 404
    /\ \E e \in Events(s) : e.op = "response" /\ e.arg = 0

\* The grid the loop of start() runs over.
LoopGrid(s) ==
  (loc[s].min_x .. loc[s].max_x) \X (loc[s].min_y .. loc[s].max_y)

\* C5: a failed fetch ends nothing: start() returns only after the whole
\* loop, every index of it was attempted, and every index that was cached
\* or fetched with 200 is in tiles(), whatever failed besides.
C5_FailureIsIsolated ==
  \A s \in Sessions :
    pc[s] = "done" =>
      /\ Probed(s) = LoopGrid(s)
      /\ \A ix \in LoopGrid(s) :
           ix \in Hits(s) \cup Fetched(s) => ix \in TileIndices(s)

\* C5 witness: start() has returned with the first index failed and a later
\* one fetched and in tiles().
C5_Witness ==
  \E s \in Sessions :
    /\ pc[s] = "done"
    /\ <<0, 0>> \in Failed(s)
    /\ <<1, 1>> \in Fetched(s)
    /\ <<1, 1>> \in TileIndices(s)

\* C6: every MapTile in tiles() has the cache path of its index, and a
\* cache file exists at that path.
C6_TilesHaveCacheFiles ==
  \A s \in Sessions :
    \A i \in DOMAIN tiles[s] :
      /\ tiles[s][i].path =
           cachedPathForTile(obj[s].cache_path_, tiles[s][i].x,
                             tiles[s][i].y, tiles[s][i].z)
      /\ exists(tiles[s][i].path)

\* C7: when a fetch returned 200 and writing the cache file failed, no
\* MapTile is in tiles() for that index.
C7_FailedWriteOmitsTile ==
  \A s \in Sessions :
    InStart(s) =>
      \A e \in Events(s) :
        (e.op = "write" /\ e.arg # "ok") => <<e.x, e.y>> \notin TileIndices(s)

\* The tiles the I/O log of session s accounts for: one per cache hit and
\* per response with status 200, in the order of the log.
TilesFromLog(s) ==
  LET ok == SelectSeq(io[s],
                      LAMBDA e : \/ e.op = "exists" /\ e.arg
                                 \/ e.op = "response" /\ e.arg = 200)
  IN  [i \in DOMAIN ok |-> TileOf(s, <<ok[i].x, ok[i].y>>)]

\* C8: after abort() tiles() is empty, and the list of a start() holds
\* what this call found in the cache or fetched and nothing of an earlier
\* list.
C8_StartRebuildsFromScratch ==
  \A s \in Sessions :
    /\ pc[s] = "idle" => tiles[s] = <<>>
    /\ InStart(s) => tiles[s] = TilesFromLog(s)

\* C8 witness: a start() has returned that found in the cache a file no run
\* begins with, which an earlier start() of the session fetched and listed.
C8_Witness ==
  \E s \in Sessions :
    /\ pc[s] = "done"
    /\ obj[s].zoom_ = 1
    /\ <<1, 0>> \in Hits(s)
    /\ Len(tiles[s]) = 4

\* C9: a constructor call that throws leaves the file system, the cache
\* directory included, as it was.
C9_FailedConstructionLeavesNoTrace ==
  [][\A s \in Sessions :
       (pc[s] = "none" /\ pc'[s] = "thrown") =>
         (dirs' = dirs /\ files' = files)]_vars

\* A step in which session s alone acted and is idle afterwards: abort().
AbortStep(s) ==
  /\ pc[s] \in {"idle", "done"}
  /\ pc'[s] = "idle"
  /\ \A t \in Sessions \ {s} :
       pc'[t] = pc[t] /\ tiles'[t] = tiles[t] /\ io'[t] = io[t]

\* C10: no step of any session removes a cache file or a cache directory,
\* and abort() changes nothing on disk.
C10_CacheOnlyGrows ==
  [][/\ DOMAIN files \subseteq DOMAIN files'
     /\ dirs \subseteq dirs'
     /\ \A s \in Sessions : AbortStep(s) => (files' = files /\ dirs' = dirs)]_vars

\* C10 witness: two sessions have started; one was aborted after fetching a
\* tile, whose file is still there, and the other found it in the cache.
C10_Witness ==
  \E s, t \in Sessions :
    /\ s # t
    /\ pc[s] = "idle"
    /\ tiles[s] = <<>>
    /\ \E e \in Events(s) :
         /\ e.op = "write" /\ e.arg = "ok"
         /\ exists(TileOf(s, <<e.x, e.y>>).path)
         /\ TileOf(s, <<e.x, e.y>>).path \notin PrePopulated
         /\ pc[t] = "done"
         /\ <<e.x, e.y>> \in Hits(t)

\* Has a call of function fn returned (or thrown)?
Returned(fn) == calc.fn = fn /\ calc.returned

\* C11: latLonToTileCoords throws std::invalid_argument and gives no
\* coordinates when zoom > 31, or the latitude is below -85.0511 or above
\* 85.0511, or the longitude is below -180 or above 180; for every other
\* input it does not throw.
C11_RejectsExactlyOutOfRange ==
  Returned("latLonToTileCoords") =>
    LET outside == \/ calc.zoom > 31
                   \/ calc.lat < -850511 \/ calc.lat > 850511
                   \/ calc.lon < -180 \/ calc.lon > 180
    IN  /\ outside =>
             /\ calc.result.exception = "std::invalid_argument"
             /\ "floor_x" \notin DOMAIN calc.result
             /\ "floor_y" \notin DOMAIN calc.result
        /\ ~outside => calc.result.exception = "none"

\* C11 witness: the call with zoom 32, latitude 90 and longitude 200 has
\* thrown.
C11_Witness ==
  /\ Returned("latLonToTileCoords")
  /\ calc.zoom = 32 /\ calc.lat = 900000 /\ calc.lon = 200
  /\ calc.result.exception = "std::invalid_argument"

\* Is the number u = [top, low] a tile index of the grid at zoom 0..31:
\* 0 <= u <= 2^zoom - 1?
InTileRange(u, zoom) ==
  /\ u.top = 0
  /\ u.low >= 0
  /\ zoom < 31 => u.low <= Pow2(zoom) - 1

\* C12: for every accepted input, range ends included, the floors of x and
\* y are indices in [0, 2^zoom - 1].
C12_FlooredCoordsInGrid ==
  (Returned("latLonToTileCoords") /\ calc.result.exception = "none") =>
    /\ InTileRange(calc.result.floor_x, calc.zoom)
    /\ InTileRange(calc.result.floor_y, calc.zoom)

\* The decimal value a placeholder letter stands for.
PlaceholderValue(c, x, y, zoom) ==
  CASE c \in {"x", "X"} -> to_string(x)
    [] c \in {"y", "Y"} -> to_string(y)
    [] c \in {"z", "Z"} -> to_string(zoom)

\* Template t with every {x}, {y} and {z}, in either case, replaced by its
\* value and every other character kept.
RECURSIVE Substituted(_, _, _, _)
Substituted(t, x, y, zoom) ==
  IF t = <<>> THEN <<>>
  ELSE IF /\ Len(t) >= 3
          /\ t[1] = "{"
          /\ t[2] \in {"x", "X", "y", "Y", "z", "Z"}
          /\ t[3] = "}"
    THEN PlaceholderValue(t[2], x, y, zoom)
           \o Substituted(SubSeq(t, 4, Len(t)), x, y, zoom)
    ELSE <<t[1]>> \o Substituted(Tail(t), x, y, zoom)

\* C13: uriForTile returns the template with every occurrence of {x}, {y}
\* and {z}, in either case, replaced by the decimal x, y and zoom, and all
\* other characters unchanged, also for repeated placeholders and for
\* replacements of another length than the placeholder.
C13_EveryPlaceholderReplaced ==
  Returned("uriForTile") =>
    calc.result = Substituted(calc.object_uri, calc.x, calc.y, calc.zoom)

\* How often placeholder letter c occurs in template t.
Occurrences(t, c) ==
  Cardinality({ i \in 0 .. (Len(t) - 3) : MatchesAt(t, i, c) })

\* The part of C13 the code keeps: in a build without iterator checking, a
\* template that holds each placeholder at most once is resolved.
C13_HoldsForSingleOccurrences ==
  (/\ Returned("uriForTile")
   /\ calc.ub = "plain"
   /\ \A c \in {"x", "y", "z"} : Occurrences(calc.object_uri, c) <= 1) =>
    calc.result = Substituted(calc.object_uri, calc.x, calc.y, calc.zoom)

\* The entries of the I/O log of session s with operation op for index ix.
LogOf(s, op, ix) ==
  { i \in DOMAIN io[s] :
      io[s][i].op = op /\ <<io[s][i].x, io[s][i].y>> = ix }

\* The requests of session s that have no response yet.
Outstanding(s) ==
  { i \in DOMAIN io[s] :
      /\ io[s][i].op = "get"
      /\ ~\E j \in DOMAIN io[s] :
            /\ j > i
            /\ io[s][j].op = "response"
            /\ io[s][j].x = io[s][i].x
            /\ io[s][j].y = io[s][i].y }

\* C14: within one start() every index is resolved once and cache-first:
\* one existence check per index, before any request for it, at most one
\* request per index, and never two requests outstanding.
C14_OnceAndCacheFirst ==
  \A s \in Sessions :
    InStart(s) =>
      /\ \A ix \in Probed(s) \cup Requested(s) :
           /\ Cardinality(LogOf(s, "exists", ix)) = 1
           /\ Cardinality(LogOf(s, "get", ix)) <= 1
           /\ \A j \in LogOf(s, "get", ix) :
                \E i \in LogOf(s, "exists", ix) : i < j
      /\ Cardinality(Outstanding(s)) <= 1
      /\ pc[s] = "done" => (Outstanding(s) = {} /\ Probed(s) = LoopGrid(s))

\* C14 witness: start() has returned from a grid of four indices, three of
\* them requested and one found in the cache.
C14_Witness ==
  \E s \in Sessions :
    /\ pc[s] = "done"
    /\ Cardinality(Requested(s)) = 3
    /\ Cardinality(Hits(s)) = 1

\* C15: once abort() was called while a start() is in flight, that start()
\* publishes no further tile: tiles() is empty from then on until the next
\* start().
C15_AbortCancelsStart ==
  \A s \in Sessions :
    (InStart(s) /\ AbortsInFlight(s) # {}) => tiles[s] = <<>>

\* Is the int d the positive power of two 2^zoom, for zoom in 0..31?
IsPowerOfTwo(d, zoom) ==
  /\ d > 0
  /\ IF zoom = 0 THEN d = 1
     ELSE d % 2 = 0 /\ d \div 2 = Pow2(zoom - 1)

\* C16: for every zoom in 0..31, zoomToResolution(lat, zoom) is
\* 156543.034 * cos(lat * pi / 180) divided by exactly 2^zoom: the divisor
\* is the positive power of two, also at zoom 31.
C16_ResolutionDividesByPowerOfTwo ==
  Returned("zoomToResolution") =>
    /\ calc.result.scale = EquatorResolution
    /\ calc.result.cos_of = calc.lat
    /\ IsPowerOfTwo(calc.result.divisor, calc.zoom)

\* Session s holds a constructed object.
Constructed(s) == pc[s] \in {"idle", "loop", "get", "done"}

\* The center tile of session s is a tile of the grid at its zoom.
CenterInGrid(s) ==
  /\ InTileRange(UInt(0, Max(0, obj[s].center_tile_x_)), obj[s].zoom_)
  /\ InTileRange(UInt(0, Max(0, obj[s].center_tile_y_)), obj[s].zoom_)
  /\ obj[s].center_tile_x_ >= 0
  /\ obj[s].center_tile_y_ >= 0

\* C17: for every object the constructor built, with its center in the
\* grid, blocks_ >= 0 holds and no expression of the grid bounds overflows
\* int, so that in start() min <= center <= max on both axes and the loop
\* runs over a non-empty range.
C17_BoundsNeverOverflow ==
  \A s \in Sessions :
    (Constructed(s) /\ CenterInGrid(s)) =>
      /\ obj[s].blocks_ >= 0
      /\ ~BoundsOverflow(obj[s])
      /\ pc[s] \in {"loop", "get", "done"} =>
           /\ loc[s].min_x <= obj[s].center_tile_x_
           /\ obj[s].center_tile_x_ <= loc[s].max_x
           /\ loc[s].min_y <= obj[s].center_tile_y_
           /\ obj[s].center_tile_y_ <= loc[s].max_y

\* C18: an index that was in tiles() after a start() returned is served
\* from the cache by every later start(): a later start() sends no request
\* for it.
C18_ListedTilesAreServedFromCache ==
  \A s \in Sessions :
    pc[s] \in {"loop", "get"} =>
      \A ix \in Requested(s) : TileOf(s, ix).path \notin listed

\* The cache paths that are new or have other content after a step.
ChangedFiles ==
  { p \in DOMAIN files' : p \notin DOMAIN files \/ files'[p] # files[p] }

\* Session s, waiting for the response for an index ix of its clamped grid
\* that had no cache file, gets status 200 in this step.
FetchedMissing(s, ix) ==
  /\ pc[s] = "get"
  /\ ix = <<loc[s].x, loc[s].y>>
  /\ ix \in ClampedGrid(s)
  /\ \E i \in DOMAIN io[s] :
       io[s][i] = Event("exists", ix[1], ix[2], FALSE)
  /\ io'[s] = io[s] \o <<Event("response", ix[1], ix[2], 200),
                         io'[s][Len(io'[s])]>>

\* C19: a start() of a single session writes to the cache only at the
\* cache path of an index of the clamped grid that had no cache file and
\* whose fetch returned 200; it never rewrites or truncates a cache file
\* that existed, and no cache file disappears.
C19_WritesOnlyMissingFetched ==
  [][/\ DOMAIN files \subseteq DOMAIN files'
     /\ \A p \in ChangedFiles :
          /\ p \notin DOMAIN files
          /\ \E s \in Sessions : \E ix \in ClampedGrid(s) :
               /\ FetchedMissing(s, ix)
               /\ p = TileOf(s, ix).path]_vars

\* C19 witness: a start() has returned that found one index in the cache,
\* wrote the file of another after a 200, and wrote none for a third whose
\* fetch failed.
C19_Witness ==
  \E s \in Sessions :
    /\ pc[s] = "done"
    /\ Hits(s) # {}
    /\ \E e \in Events(s) :
         /\ e.op = "write" /\ e.arg = "ok"
         /\ files[TileOf(s, <<e.x, e.y>>).path] = "image"
    /\ \E ix \in Failed(s) : ~exists(TileOf(s, ix).path)
    /\ \A ix \in Hits(s) : files[TileOf(s, ix).path] = "image"

====
